---- MODULE Spec2Model ----
(***************************************************************************)
(* Model of the two-stage generation pipeline of src/claude_stages.py:     *)
(* the Resilient Decoder (_safe_parse_json, _strip_markdown_fences), the   *)
(* raw-text wrap (_build_fallback_from_text), the Fallback Strategy        *)
(* (_run_simple_fallback), the Stage Runners (_run_stage1,                 *)
(* _run_stage2_streaming) and the Orchestrator                             *)
(* (generate_claim_multistage).                                            *)
(*                                                                         *)
(* A response text is a sequence of tokens.  The punctuation tokens stand  *)
(* for single characters; a word token stands for a run of characters      *)
(* that holds none of the characters the code looks for.                   *)
(*                                                                         *)
(* Spec is a call of generate_claim_multistage; DecoderSpec applies the    *)
(* decoder and the raw-text wrap to one response text on their own;        *)
(* RouteSpec is a request to the /generate-ai route of src/app.py.         *)
(***************************************************************************)
EXTENDS Integers, Sequences, FiniteSets, TLC

\* ---- Tokens ----
LB == "{"
RB == "}"
LK == "["
RK == "]"
CM == ","
CL == ":"
QT == "q"          \* the double-quote character
NL == "nl"         \* the newline character
FENCE == "fence"   \* three backtick characters
DOT == "."         \* a full stop
LONG == "long"     \* a run of 80 or more prose characters

NumWords == {"0", "7", "1000", "25000", "26000", "99999"}

NumVal(w) ==
    CASE w = "0" -> 0
      [] w = "7" -> 7
      [] w = "1000" -> 1000
      [] w = "25000" -> 25000
      [] w = "26000" -> 26000
      [] w = "99999" -> 99999
      [] OTHER -> 0

\* ---- Python / JSON values ----
\* One record shape for every value: t is the Python type, s the content of
\* a str (a token sequence), n the number, c the children (the elements of
\* a list, the members of a dict; a member holds its key in s and its value
\* in c[1]).
None == [t |-> "null", s |-> <<>>, n |-> 0, c |-> <<>>]
JNum(x) == [t |-> "num", s |-> <<>>, n |-> x, c |-> <<>>]
JBool(b) == [t |-> "bool", s |-> <<>>, n |-> IF b THEN 1 ELSE 0, c |-> <<>>]
JStr(x) == [t |-> "str", s |-> x, n |-> 0, c |-> <<>>]
JArr(es) == [t |-> "arr", s |-> <<>>, n |-> 0, c |-> es]
JObj(ms) == [t |-> "obj", s |-> <<>>, n |-> 0, c |-> ms]
Mem(k, v) == [t |-> "mem", s |-> <<k>>, n |-> 0, c |-> <<v>>]

HasKey(d, k) == \E i \in 1..Len(d.c) : d.c[i].s = <<k>>

\* dict.get(k, default) on a dict; a repeated key keeps its last value.
DictGet(d, k, default) ==
    IF HasKey(d, k)
    THEN LET i == CHOOSE j \in 1..Len(d.c) :
                     /\ d.c[j].s = <<k>>
                     /\ \A m \in (j+1)..Len(d.c) : d.c[m].s # <<k>>
         IN d.c[i].c[1]
    ELSE default

\* ---- json.loads ----
\* The JSON whitespace of the modelled texts is the newline.
RECURSIVE SkipWs(_, _)
SkipWs(tx, i) ==
    IF i <= Len(tx) /\ tx[i] = NL THEN SkipWs(tx, i + 1) ELSE i

ParseFail == [ok |-> FALSE, v |-> None, i |-> 0]
ParseOk(val, next) == [ok |-> TRUE, v |-> val, i |-> next]

\* The index of the quote that closes the string opened before i (0 if the
\* string is unterminated or holds a raw newline, which json rejects).
RECURSIVE StringEnd(_, _)
StringEnd(tx, i) ==
    IF i > Len(tx) \/ tx[i] = NL THEN 0
    ELSE IF tx[i] = QT THEN i
    ELSE StringEnd(tx, i + 1)

ParseString(tx, i) ==
    LET j == StringEnd(tx, i + 1)
    IN IF j = 0 THEN ParseFail ELSE ParseOk(JStr(SubSeq(tx, i + 1, j - 1)), j + 1)

RECURSIVE ParseValue(_, _)
RECURSIVE ParseMembers(_, _, _)
RECURSIVE ParseElements(_, _, _)

ParseValue(tx, i0) ==
    LET i == SkipWs(tx, i0)
    IN IF i > Len(tx) THEN ParseFail
       ELSE IF tx[i] = LB THEN
            LET j == SkipWs(tx, i + 1)
            IN IF j <= Len(tx) /\ tx[j] = RB
               THEN ParseOk(JObj(<<>>), j + 1)
               ELSE ParseMembers(tx, j, <<>>)
       ELSE IF tx[i] = LK THEN
            LET j == SkipWs(tx, i + 1)
            IN IF j <= Len(tx) /\ tx[j] = RK
               THEN ParseOk(JArr(<<>>), j + 1)
               ELSE ParseElements(tx, j, <<>>)
       ELSE IF tx[i] = QT THEN ParseString(tx, i)
       ELSE IF tx[i] = "null" THEN ParseOk(None, i + 1)
       ELSE IF tx[i] = "true" THEN ParseOk(JBool(TRUE), i + 1)
       ELSE IF tx[i] = "false" THEN ParseOk(JBool(FALSE), i + 1)
       ELSE IF tx[i] \in NumWords THEN ParseOk(JNum(NumVal(tx[i])), i + 1)
       ELSE ParseFail

\* The members of an object from the key at i on; acc holds those read.
ParseMembers(tx, i, acc) ==
    IF i > Len(tx) \/ tx[i] # QT THEN ParseFail
    ELSE LET k == ParseString(tx, i)
             c == SkipWs(tx, k.i)
         IN IF ~k.ok \/ c > Len(tx) \/ tx[c] # CL THEN ParseFail
            ELSE LET v == ParseValue(tx, c + 1)
                     e == SkipWs(tx, v.i)
                     got == Append(acc, [t |-> "mem", s |-> k.v.s, n |-> 0, c |-> <<v.v>>])
                 IN IF ~v.ok \/ e > Len(tx) THEN ParseFail
                    ELSE IF tx[e] = RB THEN ParseOk(JObj(got), e + 1)
                    ELSE IF tx[e] = CM THEN ParseMembers(tx, SkipWs(tx, e + 1), got)
                    ELSE ParseFail

\* The elements of an array from the value at i on; acc holds those read.
ParseElements(tx, i, acc) ==
    LET v == ParseValue(tx, i)
        e == SkipWs(tx, v.i)
    IN IF ~v.ok \/ e > Len(tx) THEN ParseFail
       ELSE IF tx[e] = RK THEN ParseOk(JArr(Append(acc, v.v)), e + 1)
       ELSE IF tx[e] = CM THEN ParseElements(tx, e + 1, Append(acc, v.v))
       ELSE ParseFail

\* json.loads(text): ok is FALSE where it raises JSONDecodeError (no value,
\* or extra data after the value).
json_loads(tx) ==
    LET r == ParseValue(tx, 1)
    IN IF r.ok /\ SkipWs(tx, r.i) > Len(tx)
       THEN [ok |-> TRUE, v |-> r.v]
       ELSE [ok |-> FALSE, v |-> None]

\* ---- Text helpers ----
\* str.strip(): the text without its leading and trailing whitespace.
RECURSIVE Strip(_)
Strip(tx) ==
    IF tx = <<>> THEN tx
    ELSE IF Head(tx) = NL THEN Strip(Tail(tx))
    ELSE IF tx[Len(tx)] = NL THEN Strip(SubSeq(tx, 1, Len(tx) - 1))
    ELSE tx

\* text.split("\n"): the lines of the text, empty lines included.  Line k
\* lies between the (k-1)-th and the k-th newline.
NewlineAt(tx, k) ==
    LET nls == {i \in 1..Len(tx) : tx[i] = NL}
    IN IF k = 0 THEN 0
       ELSE IF k > Cardinality(nls) THEN Len(tx) + 1
       ELSE CHOOSE i \in nls : Cardinality({j \in nls : j < i}) = k - 1

SplitLines(tx) ==
    [k \in 1..(Cardinality({i \in 1..Len(tx) : tx[i] = NL}) + 1) |->
        SubSeq(tx, NewlineAt(tx, k - 1) + 1, NewlineAt(tx, k) - 1)]

\* "\n".join(lines)
RECURSIVE JoinLines(_)
JoinLines(ls) ==
    IF ls = <<>> THEN <<>>
    ELSE IF Len(ls) = 1 THEN ls[1]
    ELSE ls[1] \o <<NL>> \o JoinLines(Tail(ls))

Contains(tx, tok) == \E i \in 1..Len(tx) : tx[i] = tok

\* text.find(tok) and text.rfind(tok), 1-based; 0 where Python gives -1.
FindFirst(tx, tok) ==
    IF Contains(tx, tok)
    THEN CHOOSE i \in 1..Len(tx) : tx[i] = tok /\ \A j \in 1..(i - 1) : tx[j] # tok
    ELSE 0

FindLast(tx, tok) ==
    IF Contains(tx, tok)
    THEN CHOOSE i \in 1..Len(tx) : tx[i] = tok /\ \A j \in (i + 1)..Len(tx) : tx[j] # tok
    ELSE 0

\* ---- _strip_markdown_fences ----
\* The loop over the lines from line i on; the result is json_lines.
RECURSIVE FenceLoop(_, _, _, _)
FenceLoop(ls, i, in_fence, json_lines) ==
    IF i > Len(ls) THEN json_lines
    ELSE IF ls[i] # <<>> /\ ls[i][1] = FENCE /\ ~in_fence
         THEN FenceLoop(ls, i + 1, TRUE, json_lines)
    ELSE IF ls[i] = <<FENCE>> /\ in_fence THEN json_lines
    ELSE IF in_fence THEN FenceLoop(ls, i + 1, in_fence, Append(json_lines, ls[i]))
    ELSE FenceLoop(ls, i + 1, in_fence, json_lines)

_strip_markdown_fences(tx) == JoinLines(FenceLoop(SplitLines(tx), 1, FALSE, <<>>))

\* ---- _safe_parse_json ----
\* Strategy 3's scan from the first opening brace: brace_count after the
\* character at i, and the index one past the first closing brace at which
\* the count is zero, or start if there is none.
BraceCount(tx, start, i) ==
    Cardinality({j \in start..i : tx[j] = LB}) - Cardinality({j \in start..i : tx[j] = RB})

BraceScan(tx, start) ==
    LET closing == {i \in start..Len(tx) : tx[i] = RB /\ BraceCount(tx, start, i) = 0}
    IN IF closing = {} THEN start
       ELSE (CHOOSE i \in closing : \A j \in closing : i <= j) + 1

Strategy1(tx) == json_loads(tx)

\* "if stripped:" and the parse of the stripped text.
LoadsIfNonEmpty(stripped) ==
    IF stripped # <<>> THEN json_loads(stripped) ELSE [ok |-> FALSE, v |-> None]

Strategy2(tx) ==
    IF Contains(tx, FENCE)
    THEN LoadsIfNonEmpty(_strip_markdown_fences(tx))
    ELSE [ok |-> FALSE, v |-> None]

Strategy3(tx) ==
    LET start == FindFirst(tx, LB)
        end == BraceScan(tx, start)
    IN IF start # 0 /\ end > start
       THEN json_loads(SubSeq(tx, start, end - 1))
       ELSE [ok |-> FALSE, v |-> None]

Strategy4(tx) ==
    LET first_brace == FindFirst(tx, LB)
        last_brace == FindLast(tx, RB)
    IN IF first_brace # 0 /\ last_brace > first_brace
       THEN json_loads(SubSeq(tx, first_brace, last_brace))
       ELSE [ok |-> FALSE, v |-> None]

\* The value returned and the strategy that returned it (0: none did).
\* One strategy's try block: its value if it parsed, else what follows it.
Try(r, by, otherwise) == IF r.ok THEN [v |-> r.v, by |-> by] ELSE otherwise

\* The decoder as it would be with the brace scan tried before the fences.
SafeParse_brace_first(tx) ==
    IF tx = <<>> THEN [v |-> None, by |-> 0]
    ELSE Try(Strategy1(tx), 1,
         Try(Strategy3(tx), 3,
         Try(Strategy2(tx), 2,
         Try(Strategy4(tx), 4, [v |-> None, by |-> 0]))))

SafeParse(tx) ==
    IF tx = <<>> THEN [v |-> None, by |-> 0]
    ELSE Try(Strategy1(tx), 1,
         Try(Strategy2(tx), 2,
         Try(Strategy3(tx), 3,
         Try(Strategy4(tx), 4, [v |-> None, by |-> 0]))))

_safe_parse_json(tx) == SafeParse(tx).v

\* ---- _build_fallback_from_text ----
SHEKEL == "nis"                \* the shekel sign
TITLE == "ktav_tvia"           \* the default header
ParagraphCap == 50

\* len(tok) in characters.
CharLen(tok) ==
    IF tok = LONG THEN 80
    ELSE IF tok \in {LB, RB, LK, RK, CM, CL, QT, NL, DOT, SHEKEL} THEN 1
    ELSE 5

\* len(l) in characters, summed by halves.
RECURSIVE SumLen(_, _, _)
SumLen(l, a, b) ==
    IF a > b THEN 0
    ELSE IF a = b THEN CharLen(l[a])
    ELSE SumLen(l, a, (a + b) \div 2) + SumLen(l, (a + b) \div 2 + 1, b)

LineLen(l) == SumLen(l, 1, Len(l))

\* [p.strip() for p in raw_text.split('\n') if p.strip()]
Paragraphs(tx) == SelectSeq(SplitLines(tx), LAMBDA l : l # <<>>)

IsHeaderLine(para) ==
    /\ LineLen(para) < 80
    /\ para[Len(para)] # DOT
    /\ para[Len(para)] # SHEKEL

Section(header, paragraphs) ==
    JObj(<<Mem("header", JStr(header)), Mem("paragraphs", JArr(paragraphs))>>)

\* The loop over the paragraphs from i on: cur_h and cur_p are
\* current_section's header and paragraphs; the result is the pair of
\* sections and current_section's paragraphs after the loop.
RECURSIVE WrapLoop(_, _, _, _, _)
WrapLoop(ps, i, sections, cur_h, cur_p) ==
    IF i > Len(ps)
    THEN IF cur_p # <<>> THEN Append(sections, Section(cur_h, cur_p)) ELSE sections
    ELSE IF IsHeaderLine(ps[i])
         THEN WrapLoop(ps, i + 1,
                       IF cur_p # <<>> THEN Append(sections, Section(cur_h, cur_p))
                                       ELSE sections,
                       ps[i], <<>>)
         ELSE WrapLoop(ps, i + 1, sections, cur_h, Append(cur_p, JStr(ps[i])))

WrapSections(tx) ==
    LET ps == Paragraphs(tx)
        sections == WrapLoop(ps, 1, <<>>, <<TITLE>>, <<>>)
        capped == SubSeq(ps, 1, IF Len(ps) < ParagraphCap THEN Len(ps) ELSE ParagraphCap)
    IN IF sections = <<>>
       THEN <<Section(<<TITLE>>, [i \in 1..Len(capped) |-> JStr(capped[i])])>>
       ELSE sections

_build_fallback_from_text(raw_text, sd, calc) ==
    JObj(<<Mem("gender_form", JStr(<<sd.gender>>)),
           Mem("sections", JArr(WrapSections(raw_text))),
           Mem("appendices", JArr(<<>>)),
           Mem("calculations", JArr(<<>>)),
           Mem("legal_citations", JArr(<<>>)),
           Mem("summary_total", JNum(calc.total))>>)

\* ---- The request ----
\* claim_keys of generate_claim_multistage: flag -> claim name (the Hebrew
\* names are transliterated).
claim_keys ==
    [claim_severance |-> "pitzuyei_piturim",
     claim_prior_notice |-> "hodaa_mukdemet",
     claim_unpaid_salary |-> "sachar_avoda",
     claim_overtime |-> "shaot_nosafot",
     claim_pension |-> "pensia",
     claim_vacation |-> "hufsha",
     claim_holidays |-> "dmei_hagim",
     claim_recuperation |-> "havraa",
     claim_salary_delay |-> "halanat_sachar",
     claim_emotional |-> "ogmat_nefesh",
     claim_deductions |-> "nikuyim",
     claim_documents |-> "mismachei_gmar"]

\* The claim flags a modelled request may set, and the amounts the
\* calculator may have produced for them.
RequestFlags == {"claim_severance", "claim_emotional"}
SeveranceAmounts == {1000, 25000}
EmotionalAmount == 25000

\* selected_claims: the names of the flags set in structured_data (a set;
\* the code keeps them in claim_keys order).
selected_claims(sd) == {claim_keys[k] : k \in (DOMAIN claim_keys) \cap sd.flags}

\* The flags calculate_all_claims has an "if data.get(flag)" block for:
\* every key of claim_keys but claim_prior_notice and claim_documents.
CalculatedFlags ==
    {"claim_severance", "claim_unpaid_salary", "claim_overtime", "claim_pension",
     "claim_vacation", "claim_holidays", "claim_recuperation", "claim_salary_delay",
     "claim_emotional", "claim_deductions"}

\* The claims and the total of calculate_all_claims: one entry per set flag
\* that has a block, keyed by the claim name, and the sum of the amounts.
\* The severance amount is given, the emotional amount is its default, and
\* the other amounts are those of a request that enters none (0).
calculate_all_claims(flags, severance) ==
    LET amount == [k \in flags \cap CalculatedFlags |->
                      IF k = "claim_severance" THEN severance
                      ELSE IF k = "claim_emotional" THEN EmotionalAmount ELSE 0]
        sev == IF "claim_severance" \in flags THEN severance ELSE 0
        emo == IF "claim_emotional" \in flags THEN EmotionalAmount ELSE 0
    IN [claims |-> [n \in {claim_keys[k] : k \in flags \cap CalculatedFlags} |->
                       amount[CHOOSE k \in flags \cap CalculatedFlags : claim_keys[k] = n]],
        total |-> sev + emo]

Requests ==
    { [sd |-> [flags |-> f, gender |-> g], calc |-> calculate_all_claims(f, a)] :
        f \in SUBSET RequestFlags, g \in {"male", "female"}, a \in SeveranceAmounts }

\* ---- Response texts ----
Str(w) == <<QT, w, QT>>
Key(k) == <<QT, k, QT, CL>>

SectionTxt(h) ==
    <<LB>> \o Key("header") \o Str(h) \o <<CM>> \o Key("paragraphs")
           \o <<LK>> \o Str("para") \o <<RK, RB>>

AppendixTxt(num) == <<LB>> \o Key("number") \o <<num, RB>>

\* A Drafter payload: one section headed h, one calculation of amt for the
\* component h, one appendix and the declared total tot.
DraftTxt(h, amt, tot) ==
    <<LB>> \o Key("sections") \o <<LK>> \o SectionTxt(h) \o <<RK, CM>>
           \o Key("appendices") \o <<LK>> \o AppendixTxt("7") \o <<RK, CM>>
           \o Key("calculations") \o <<LK, LB>> \o Key("component") \o Str(h)
           \o <<CM>> \o Key("amount") \o <<amt, RB, RK, CM>>
           \o Key("summary_total") \o <<tot, RB>>

SEV == claim_keys["claim_severance"]
EMO == claim_keys["claim_emotional"]

ProseTxt == <<"dear", "court", NL, LONG, DOT, NL, NL, "facts", NL, LONG, SHEKEL>>
TruncatedTxt == <<LB>> \o Key("sections") \o <<LK, LB>> \o Key("header")

\* Texts no strategy decodes (the empty text and JSON null included).
UndecodableTexts == {<<>>, ProseTxt, <<"null">>, TruncatedTxt, <<"court", DOT>>}

\* Texts that decode to a value that is not an object.
NonObjectTexts == {<<LK, RK>>, <<"7">>, Str("para")}

\* Well-formed payload objects, bare and wrapped.
PayloadTexts ==
    {DraftTxt(SEV, "25000", "25000"),
     DraftTxt(SEV, "99999", "99999"),
     DraftTxt(EMO, "1000", "26000"),
     <<"here", CL, NL, FENCE, "json", NL>> \o DraftTxt(SEV, "25000", "1000")
         \o <<NL, FENCE, NL, "thanks">>,
     <<"here", CL>> \o DraftTxt(EMO, "25000", "25000") \o <<"thanks">>,
     <<LB>> \o Key("sections") \o <<LK>> \o SectionTxt("intro") \o <<RK, CM>>
            \o Key("note") \o <<QT, RB, QT, RB, "thanks">>}

\* Objects whose fields are missing or of another type.
OddObjectTexts ==
    {<<LB, RB>>,
     <<LB>> \o Key("sections") \o <<LK, RK, RB>>,
     <<LB>> \o Key("sections") \o <<"null", RB>>,
     <<LB>> \o Key("sections") \o <<LK>> \o SectionTxt("intro") \o <<RK, CM>>
            \o Key("appendices") \o <<"null", RB>>,
     <<LB>> \o Key("sections") \o <<LK>> \o SectionTxt("intro") \o <<RK, CM>>
            \o Key("appendices") \o Str("none") \o <<RB>>}

\* A payload inside a fenced block: the opening fence line (with the word
\* json or bare), the payload's lines, the closing fence line, with lines
\* of prose before and after.
Fenced(before, info, payload, after) ==
    before \o <<FENCE>> \o info \o <<NL>> \o payload \o <<NL, FENCE>> \o after

\* A payload whose section header holds a closing brace.
BraceDraftTxt ==
    <<LB>> \o Key("sections") \o <<LK, LB>> \o Key("header")
           \o <<QT, "intro", RB, QT, CM>> \o Key("paragraphs")
           \o <<LK>> \o Str("para") \o <<RK, RB, RK, RB>>

\* Fenced responses, each with the payload it wraps.
FencedPayloads ==
    {[text |-> Fenced(<<>>, <<>>, p, <<>>), payload |-> p] :
        p \in {DraftTxt(SEV, "25000", "25000"), BraceDraftTxt}}
    \cup
    {[text |-> Fenced(<<"here", CL, NL>>, <<"json">>, p, <<NL, "thanks">>), payload |-> p] :
        p \in {DraftTxt(SEV, "25000", "1000"), BraceDraftTxt}}
    \cup
    {[text |-> Fenced(<<"note", LB, "see", RB, NL>>, <<"json">>,
                      DraftTxt(EMO, "25000", "25000"), <<NL, "thanks", RB>>),
      payload |-> DraftTxt(EMO, "25000", "25000")]}

FencedTexts == {f.text : f \in FencedPayloads}

DrafterTexts ==
    UndecodableTexts \cup NonObjectTexts \cup PayloadTexts \cup OddObjectTexts
        \cup FencedTexts

FallbackTexts ==
    {<<>>, ProseTxt, <<"null">>, <<"court", DOT>>, <<LK, RK>>, <<LB, RB>>,
     DraftTxt(SEV, "99999", "99999"), DraftTxt(EMO, "1000", "26000"),
     <<FENCE, NL>> \o DraftTxt(SEV, "25000", "25000") \o <<NL, FENCE>>}

AnalysisTxt ==
    <<LB>> \o Key("sections_required") \o <<LK>> \o Str("intro") \o <<RK, CM>>
           \o Key("appendices_detected") \o <<LK>> \o AppendixTxt("7") \o <<RK, RB>>

AnalystTexts ==
    {ProseTxt, <<"null">>, <<LK, RK>>, <<"7">>, <<LB, RB>>, AnalysisTxt,
     <<FENCE, "json", NL>> \o AnalysisTxt \o <<NL, FENCE>>,
     <<LB>> \o Key("appendices_detected") \o <<"null", RB>>,
     <<LB>> \o Key("appendices_detected") \o Str("none") \o <<RB>>}

\* A remote call either raises (ServiceError) or returns a text.
Responses(texts) ==
    {[raised |-> TRUE, text |-> <<>>]} \cup {[raised |-> FALSE, text |-> t] : t \in texts}

\* ---- Timeouts and latencies ----
API_TIMEOUT == 120
HARD_TIMEOUT == 150

\* The latency bound of one remote call, and the latencies a call may take.
MaxLatency == 160
Latencies == {0, API_TIMEOUT, MaxLatency}

\* The Analyst's call may also take exactly the hard timeout.
AnalystLatencies == Latencies \cup {HARD_TIMEOUT}

\* The stream of the Drafter's response: the lengths of its chunks.
ChunkSeqs == {<<600>>, <<520, 480>>}

\* ---- Stage Runners ----
\* A runner's result: exc is the exception it raises ("" if it returns), v
\* the value it returns.
Raises(e) == [exc |-> e, v |-> None]
Returns(val) == [exc |-> "", v |-> val]

\* "if parsed is None: raise ValueError(...)" / "return parsed"
ParsedOrRaise(parsed) ==
    IF parsed = None THEN Raises("ValueError") ELSE Returns(parsed)

\* The tail of the Fallback as it would be without the raw-text wrap.
ParsedOrWrap_unwrapped(parsed, text, sd, calc) == Returns(parsed)

\* "if parsed is not None: return parsed" / the raw-text wrap
ParsedOrWrap(parsed, text, sd, calc) ==
    IF parsed # None THEN Returns(parsed)
    ELSE Returns(_build_fallback_from_text(text, sd, calc))

_run_stage1(resp) ==
    IF resp.raised THEN Raises("ServiceError")
    ELSE ParsedOrRaise(_safe_parse_json(Strip(resp.text)))

_run_stage2_streaming(resp) ==
    IF resp.raised THEN Raises("ServiceError")
    ELSE ParsedOrRaise(_safe_parse_json(Strip(resp.text)))

_run_simple_fallback(resp, sd, calc) ==
    IF resp.raised THEN Raises("ServiceError")
    ELSE ParsedOrWrap(_safe_parse_json(Strip(resp.text)), Strip(resp.text), sd, calc)

\* _on_stream_progress over the chunks of a stream: one drafting_progress
\* event for each running total whose remainder by 500 is below 50.
RECURSIVE Total(_, _)
Total(chunks, i) == IF i = 0 THEN 0 ELSE chunks[i] + Total(chunks, i - 1)

ProgressEvents(chunks) ==
    [j \in 1..Cardinality({i \in 1..Len(chunks) : Total(chunks, i) % 500 < 50}) |->
        "drafting_progress"]

\* ---- Orchestrator ----
EmptyAnalysis ==
    JObj(<<Mem("sections_required", JArr(<<>>)),
           Mem("applicable_laws", JArr(<<>>)),
           Mem("appendices_detected", JArr(<<>>)),
           Mem("flags", JObj(<<>>))>>)

\* The try block around _run_stage1: a raising runner leaves the empty
\* analysis; a returned value is kept whether or not the log line that
\* reads it raises.
OnRaise(r, default) == IF r.exc # "" THEN default ELSE r.v

Stage1Analysis(resp) == OnRaise(_run_stage1(resp), EmptyAnalysis)

\* The try block around _run_stage2_streaming: a raising runner leaves None.
Stage2Result(resp) == OnRaise(_run_stage2_streaming(resp), None)

\* stage2_raw_text: set to None before the Drafter's try block and not
\* assigned again.
stage2_raw_text == None

\* The check as it would be if the limit itself were a timeout.
TimedOut_inclusive(elapsed) == elapsed >= HARD_TIMEOUT

\* _check_timeout
TimedOut(elapsed) == elapsed > HARD_TIMEOUT

\* Python's a + b on the values the merge adds.
PyAddable(a, b) ==
    \/ a.t = "arr" /\ b.t = "arr"
    \/ a.t = "str" /\ b.t = "str"
    \/ a.t \in {"num", "bool"} /\ b.t \in {"num", "bool"}

PyAdd(a, b) ==
    IF a.t = "arr" THEN JArr(a.c \o b.c)
    ELSE IF a.t = "str" THEN JStr(a.s \o b.s)
    ELSE JNum(a.n + b.n)

NoDraft ==
    [gender_form |-> None, sections |-> None, appendices |-> None,
     calculations |-> None, legal_citations |-> None, summary_total |-> 0,
     verification_notes |-> <<>>, total_seconds |-> 0, stages_completed |-> 0]

Running == [kind |-> "running", exc |-> "", draft |-> NoDraft]
ReturnNone == [kind |-> "null", exc |-> "", draft |-> NoDraft]
Raise(e) == [kind |-> "raise", exc |-> e, draft |-> NoDraft]

\* The total as a merge that trusted the payload would take it.
summary_total_declared(s2, calc) == DictGet(s2, "summary_total", JNum(calc.total)).n

summary_total(s2, calc) == calc.total

\* The return statement of generate_claim_multistage: the merged draft, or
\* the exception its evaluation raises.
MergedDraft(s1, s2, sd, calc, total_elapsed) ==
    IF s2.t # "obj" \/ s1.t # "obj" THEN Raise("AttributeError")
    ELSE IF ~PyAddable(DictGet(s2, "appendices", JArr(<<>>)),
                       DictGet(s1, "appendices_detected", JArr(<<>>)))
         THEN Raise("TypeError")
    ELSE [kind |-> "draft", exc |-> "",
          draft |->
            [gender_form |-> DictGet(s2, "gender_form", JStr(<<sd.gender>>)),
             sections |-> DictGet(s2, "sections", JArr(<<>>)),
             appendices |-> PyAdd(DictGet(s2, "appendices", JArr(<<>>)),
                                  DictGet(s1, "appendices_detected", JArr(<<>>))),
             calculations |-> DictGet(s2, "calculations", JArr(<<>>)),
             legal_citations |-> DictGet(s2, "legal_citations", JArr(<<>>)),
             summary_total |-> summary_total(s2, calc),
             verification_notes |-> <<>>,
             total_seconds |-> total_elapsed,
             stages_completed |-> 2]]

\* The fallback test as a check for a payload object would make it.
NeedsFallback_not_object(s2) == s2.t # "obj"

\* Whether the orchestrator goes on to the fallback after the Drafter.
NeedsFallback(s2) == s2 = None

VARIABLES
    pc,               \* where generate_claim_multistage stands
    api_key,          \* whether an API key was passed
    structured_data,  \* the request's flags and gender
    calculations,     \* the authoritative amounts and their total
    elapsed,          \* time.time() - start_time
    stage1,           \* the analysis
    stage2,           \* the Drafter's or Fallback's payload, or None
    calls,            \* the remote calls made, in order, with their responses
    events,           \* the stages passed to on_stage, in order
    checked,          \* the elapsed times _check_timeout was called with
    outcome,          \* what the call returned or raised
    text,             \* the response text handed to the decoder on its own
    parsed,           \* what _safe_parse_json made of text
    wrapped,          \* what _build_fallback_from_text made of text
    active,           \* which of two concurrent invocations is running
    other             \* the locals of the invocation that is not running

vars == <<pc, api_key, structured_data, calculations, elapsed, stage1, stage2,
          calls, events, checked, outcome, text, parsed, wrapped, active, other>>

\* The variables of a second, concurrent invocation.
concurrent_vars == <<active, other>>

\* The locals of an invocation that was never started.
NoInvocation ==
    [pc |-> "none", api_key |-> FALSE,
     structured_data |-> [flags |-> {}, gender |-> "male"],
     calculations |-> [claims |-> <<>>, total |-> 0],
     elapsed |-> 0, stage1 |-> None, stage2 |-> None, calls |-> <<>>,
     events |-> <<>>, checked |-> <<>>,
     outcome |-> [kind |-> "none", exc |-> "", draft |-> <<>>]]

\* The decoder's variables before it is applied.
NotParsed == [v |-> None, by |-> 0]
decoder_vars == <<text, parsed, wrapped>>

Init ==
    /\ pc = "entry"
    /\ api_key \in BOOLEAN
    /\ \E r \in Requests : structured_data = r.sd /\ calculations = r.calc
    /\ elapsed = 0
    /\ stage1 = EmptyAnalysis
    /\ stage2 = None
    /\ calls = <<>>
    /\ events = <<>>
    /\ checked = <<>>
    /\ outcome = Running
    /\ text = <<>>
    /\ parsed = NotParsed
    /\ wrapped = None
    /\ active = 1
    /\ other = NoInvocation

Call(stage, resp, latency) == [stage |-> stage, resp |-> resp, latency |-> latency]

\* The Drafter's call, with the chunks its stream delivered.
StreamCall(resp, latency, chunks) ==
    [stage |-> "drafter", resp |-> resp, latency |-> latency, chunks |-> chunks]

\* Lines 290-327: the API key check, the client, the start time and the
\* first progress event.
Begin ==
    /\ pc = "entry"
    /\ IF ~api_key
       THEN pc' = "done" /\ outcome' = ReturnNone /\ events' = events
       ELSE pc' = "stage1" /\ outcome' = outcome /\ events' = Append(events, "analyzing")
    /\ UNCHANGED <<api_key, structured_data, calculations, elapsed, stage1, stage2,
                   calls, checked>>
    /\ UNCHANGED decoder_vars
    /\ UNCHANGED concurrent_vars

\* Lines 328-347: the Analyst call, the timeout check after it and the
\* progress event of the Drafter.
RunAnalyst ==
    /\ pc = "stage1"
    /\ \E resp \in Responses(AnalystTexts), latency \in AnalystLatencies :
         /\ calls' = Append(calls, Call("analyst", resp, latency))
         /\ elapsed' = elapsed + latency
         /\ stage1' = Stage1Analysis(resp)
         /\ checked' = Append(checked, elapsed + latency)
         /\ IF TimedOut(elapsed + latency)
            THEN pc' = "done" /\ outcome' = Raise("TimeoutError") /\ events' = events
            ELSE pc' = "stage2" /\ outcome' = outcome /\ events' = Append(events, "drafting")
    /\ UNCHANGED <<api_key, structured_data, calculations, stage2>>
    /\ UNCHANGED decoder_vars
    /\ UNCHANGED concurrent_vars

\* Lines 349-405: the Drafter call; with a payload, the return statement;
\* without one, the progress event of the retry.
RunDrafter ==
    /\ pc = "stage2"
    /\ \E resp \in Responses(DrafterTexts), latency \in Latencies, chunks \in ChunkSeqs :
         /\ calls' = Append(calls, StreamCall(resp, latency, chunks))
         /\ elapsed' = elapsed + latency
         /\ \E s2 \in {Stage2Result(resp)} :
              /\ stage2' = s2
              /\ IF NeedsFallback(s2)
                 THEN /\ pc' = "fallback"
                      /\ outcome' = outcome
                      /\ events' = events \o ProgressEvents(chunks) \o <<"drafting">>
                 ELSE /\ pc' = "done"
                      /\ outcome' = MergedDraft(stage1, s2, structured_data,
                                                calculations, elapsed + latency)
                      /\ events' = events \o ProgressEvents(chunks) \o <<"done">>
    /\ UNCHANGED <<api_key, structured_data, calculations, stage1, checked>>
    /\ UNCHANGED decoder_vars
    /\ UNCHANGED concurrent_vars

\* The Fallback as it would be if a failed call were tried again.
RunFallback_retrying ==
    /\ pc = "fallback"
    /\ \E resp \in Responses(FallbackTexts), latency \in Latencies :
         /\ calls' = Append(calls, Call("fallback", resp, latency))
         /\ elapsed' = elapsed + latency
         /\ \E r \in {_run_simple_fallback(resp, structured_data, calculations)} :
              IF r.exc # ""
              THEN /\ pc' = IF Len(calls) < 3 THEN "fallback" ELSE "done"
                   /\ stage2' = stage2
                   /\ outcome' = IF Len(calls) < 3 THEN outcome ELSE ReturnNone
                   /\ events' = events
              ELSE /\ pc' = "done"
                   /\ stage2' = r.v
                   /\ outcome' = MergedDraft(stage1, r.v, structured_data, calculations,
                                             elapsed + latency)
                   /\ events' = Append(events, "done")
    /\ UNCHANGED <<api_key, structured_data, calculations, stage1, checked>>
    /\ UNCHANGED decoder_vars
    /\ UNCHANGED concurrent_vars

\* Lines 378-405: the Fallback call; None if it raises, else the return
\* statement.
RunFallback ==
    /\ pc = "fallback"
    /\ \E resp \in Responses(FallbackTexts), latency \in Latencies :
         /\ calls' = Append(calls, Call("fallback", resp, latency))
         /\ elapsed' = elapsed + latency
         /\ \E r \in {_run_simple_fallback(resp, structured_data, calculations)} :
              IF r.exc # ""
              THEN /\ pc' = "done"
                   /\ stage2' = stage2
                   /\ outcome' = ReturnNone
                   /\ events' = events
              ELSE /\ pc' = "done"
                   /\ stage2' = r.v
                   /\ outcome' = MergedDraft(stage1, r.v, structured_data, calculations,
                                             elapsed + latency)
                   /\ events' = Append(events, "done")
    /\ UNCHANGED <<api_key, structured_data, calculations, stage1, checked>>
    /\ UNCHANGED decoder_vars
    /\ UNCHANGED concurrent_vars

Next == Begin \/ RunAnalyst \/ RunDrafter \/ RunFallback

Spec == Init /\ [][Next]_vars

\* The call goes on as long as it has a step to take: every remote call
\* returns or fails.
FairSpec == Spec /\ WF_vars(Next)

\* ---- Two concurrent invocations ----
\* Every variable of generate_claim_multistage is a local of the call
\* (client, start_time, stage1, stage2, ...); the module holds constants
\* only.  Of two concurrent calls one runs at a time; a switch suspends
\* it with its locals and resumes the other with its own.
Locals ==
    [pc |-> pc, api_key |-> api_key, structured_data |-> structured_data,
     calculations |-> calculations, elapsed |-> elapsed, stage1 |-> stage1,
     stage2 |-> stage2, calls |-> calls, events |-> events, checked |-> checked,
     outcome |-> outcome]

\* The requests, responses and latencies of the concurrent invocations.
ConcurrentRequests ==
    {r \in Requests : /\ r.sd.flags = {"claim_severance"}
                      /\ r.sd.gender = "male" <=> r.calc.total = 1000}
ConcurrentResponses ==
    [analyst |-> {[raised |-> FALSE, text |-> <<"7">>],
                  [raised |-> FALSE, text |-> AnalysisTxt]},
     drafter |-> {[raised |-> FALSE, text |-> ProseTxt],
                  [raised |-> FALSE, text |-> DraftTxt(SEV, "25000", "25000")]},
     fallback |-> {[raised |-> TRUE, text |-> <<>>],
                   [raised |-> FALSE, text |-> DraftTxt(EMO, "1000", "26000")]}]
ConcurrentLatencies == {0, MaxLatency}

ConcurrentCalls ==
    \A i \in 1..Len(calls) :
        /\ calls[i].latency \in ConcurrentLatencies
        /\ calls[i].resp \in ConcurrentResponses[calls[i].stage]
        /\ calls[i].stage = "drafter" => calls[i].chunks = <<600>>

ConcurrentInit ==
    /\ pc = "entry"
    /\ api_key = TRUE
    /\ \E r \in ConcurrentRequests : structured_data = r.sd /\ calculations = r.calc
    /\ elapsed = 0
    /\ stage1 = EmptyAnalysis
    /\ stage2 = None
    /\ calls = <<>>
    /\ events = <<>>
    /\ checked = <<>>
    /\ outcome = Running
    /\ text = <<>>
    /\ parsed = NotParsed
    /\ wrapped = None
    /\ active = 1
    /\ \E r \in ConcurrentRequests :
         other = [pc |-> "entry", api_key |-> TRUE, structured_data |-> r.sd,
                  calculations |-> r.calc, elapsed |-> 0, stage1 |-> EmptyAnalysis,
                  stage2 |-> None, calls |-> <<>>, events |-> <<>>,
                  checked |-> <<>>, outcome |-> Running]

\* The running invocation takes a step of its own.
Step == Next /\ ConcurrentCalls'

\* A switch in which the elapsed time is not a local of the call.
Switch_shared_clock ==
    /\ active' = 3 - active
    /\ other' = Locals
    /\ pc' = other.pc
    /\ api_key' = other.api_key
    /\ structured_data' = other.structured_data
    /\ calculations' = other.calculations
    /\ elapsed' = elapsed
    /\ stage1' = other.stage1
    /\ stage2' = other.stage2
    /\ calls' = other.calls
    /\ events' = other.events
    /\ checked' = other.checked
    /\ outcome' = other.outcome
    /\ UNCHANGED decoder_vars

\* The running invocation is suspended and the other one resumed.
Switch ==
    /\ active' = 3 - active
    /\ other' = Locals
    /\ pc' = other.pc
    /\ api_key' = other.api_key
    /\ structured_data' = other.structured_data
    /\ calculations' = other.calculations
    /\ elapsed' = other.elapsed
    /\ stage1' = other.stage1
    /\ stage2' = other.stage2
    /\ calls' = other.calls
    /\ events' = other.events
    /\ checked' = other.checked
    /\ outcome' = other.outcome
    /\ UNCHANGED decoder_vars

ConcurrentNext == Step \/ Switch

ConcurrentSpec == ConcurrentInit /\ [][ConcurrentNext]_vars

\* ---- The decoder and the raw-text wrap on their own ----
\* The lines a prose response is made of: two short lines, a long line and
\* a short line ending in a full stop, a line ending in the shekel sign,
\* and the empty line.
MaxLines == 3
ProseLines == {<<"dear">>, <<"court">>, <<LONG, DOT>>, <<"facts", DOT>>,
               <<"1000", SHEKEL>>, <<>>}

RECURSIVE LineSeqs(_)
LineSeqs(n) ==
    IF n = 0 THEN {<<>>}
    ELSE LineSeqs(n - 1) \cup
         {Append(ls, l) : ls \in LineSeqs(n - 1), l \in ProseLines}

\* A prose response of more short lines than the wrap's paragraph cap.
ManyLinesTxt ==
    [i \in 1..(2 * (ParagraphCap + 1) - 1) |-> IF i % 2 = 1 THEN "dear" ELSE NL]

\* Responses that more than one strategy parses: an object before a
\* fenced object, and an array around an object.
OrderTexts ==
    {<<LB, RB, NL, FENCE, NL>> \o SectionTxt("intro") \o <<NL, FENCE>>,
     <<LK>> \o SectionTxt("intro") \o <<RK>>}

\* A payload whose note holds an opening brace.
OpenBraceTxt ==
    <<LB>> \o Key("sections") \o <<LK>> \o SectionTxt("intro") \o <<RK, CM>>
           \o Key("note") \o <<QT, LB, "see", QT, RB>>

\* Responses that are a well-formed object followed by trailing text, each
\* with the object: objects without braces in their strings, with a
\* closing and with an opening brace in a string; trailing prose without
\* braces, with a closing brace and with a pair of braces.
TrailingPayloads ==
    {[text |-> p \o t, payload |-> p] :
        p \in {DraftTxt(SEV, "25000", "25000"), BraceDraftTxt, OpenBraceTxt},
        t \in {<<"thanks">>, <<NL, "thanks", RB>>, <<NL, "see", LB, "facts", RB>>}}

TrailingTexts == {f.text : f \in TrailingPayloads}

\* The texts the runners hand to the decoder: each is a stripped response.
DecoderTexts ==
    {Strip(t) : t \in {JoinLines(ls) : ls \in LineSeqs(MaxLines)} \cup {ManyLinesTxt}
                      \cup DrafterTexts \cup FallbackTexts \cup AnalystTexts
                      \cup OrderTexts \cup TrailingTexts}

DecoderInit ==
    /\ pc = "decode"
    /\ text \in DecoderTexts
    /\ parsed = NotParsed
    /\ wrapped = None
    /\ active = 1
    /\ other = NoInvocation
    /\ api_key = TRUE
    /\ \E r \in Requests : structured_data = r.sd /\ calculations = r.calc
    /\ elapsed = 0
    /\ stage1 = EmptyAnalysis
    /\ stage2 = None
    /\ calls = <<>>
    /\ events = <<>>
    /\ checked = <<>>
    /\ outcome = Running

pipeline_vars == <<api_key, structured_data, calculations, elapsed, stage1, stage2,
                   calls, events, checked, outcome>>

\* parsed = _safe_parse_json(text)
Decode ==
    /\ pc = "decode"
    /\ parsed' = SafeParse(text)
    /\ pc' = "decoded"
    /\ UNCHANGED <<text, wrapped>>
    /\ UNCHANGED pipeline_vars
    /\ UNCHANGED concurrent_vars

\* Lines 438-443: with no parsed value, the raw text is wrapped.
Wrap ==
    /\ pc = "decoded"
    /\ parsed.v = None
    /\ wrapped' = _build_fallback_from_text(text, structured_data, calculations)
    /\ pc' = "wrapped"
    /\ UNCHANGED <<text, parsed>>
    /\ UNCHANGED pipeline_vars
    /\ UNCHANGED concurrent_vars

DecoderNext == Decode \/ Wrap

DecoderSpec == DecoderInit /\ [][DecoderNext]_vars

\* ---- The Grammatical Normalizer ----
\* fix_gender, which docx_generator_v2 imports and applies to every run of
\* the document: an ordered substitution table from gender-ambiguous
\* tokens to the form of the gender.  The tokens are the gendered words of
\* the generators (the plaintiff, to oblige him/her, his/her rights),
\* transliterated.
GenderTable ==
    <<[token |-> "hatovea/t", male |-> "hatovea", female |-> "hatovaat"],
      [token |-> "lechayvo/a", male |-> "lechayvo", female |-> "lechayva"],
      [token |-> "zchuyotav/ha", male |-> "zchuyotav", female |-> "zchuyoteha"]>>

\* A table that rewrites the masculine form itself into a slashed form.
GenderTable_rewrites_output ==
    <<[token |-> "hatovea/t", male |-> "hatovea", female |-> "hatovaat"],
      [token |-> "lechayvo/a", male |-> "lechayvo", female |-> "lechayva"],
      [token |-> "zchuyotav/ha", male |-> "zchuyotav", female |-> "lechayvo/a"]>>

AmbiguousTokens == {GenderTable[k].token : k \in 1..Len(GenderTable)}

\* One entry of the table applied to the whole text.
ApplyRule(tx, rule, gender) ==
    [i \in 1..Len(tx) |->
        IF tx[i] = rule.token
        THEN IF gender = "male" THEN rule.male ELSE rule.female
        ELSE tx[i]]

\* The entries applied in the table's order, from entry k on.
RECURSIVE ApplyRules(_, _, _, _)
ApplyRules(tx, table, k, gender) ==
    IF k > Len(table) THEN tx
    ELSE ApplyRules(ApplyRule(tx, table[k], gender), table, k + 1, gender)

fix_gender_rewriting(tx, gender) == ApplyRules(tx, GenderTable_rewrites_output, 1, gender)

fix_gender(tx, gender) == ApplyRules(tx, GenderTable, 1, gender)

\* The texts of a run: up to MaxTokens tokens, ambiguous tokens, forms
\* of a gender and other words.
MaxTokens == 3
RunVocabulary == AmbiguousTokens \cup {"hatovea", "hatovaat", "lechayvo", "court"}

RECURSIVE TokenSeqs(_)
TokenSeqs(n) ==
    IF n = 0 THEN {<<>>}
    ELSE TokenSeqs(n - 1) \cup
         {Append(ts, w) : ts \in TokenSeqs(n - 1), w \in RunVocabulary}

NormalizerInit ==
    /\ pc = "normalize"
    /\ text \in TokenSeqs(MaxTokens) \ {<<>>}
    /\ \E g \in {"male", "female"} : structured_data = [flags |-> {}, gender |-> g]
    /\ calculations = calculate_all_claims({}, 1000)
    /\ parsed = NotParsed
    /\ wrapped = None
    /\ active = 1
    /\ other = NoInvocation
    /\ api_key = TRUE
    /\ elapsed = 0
    /\ stage1 = EmptyAnalysis
    /\ stage2 = None
    /\ calls = <<>>
    /\ events = <<>>
    /\ checked = <<>>
    /\ outcome = Running

\* _apply_gender_to_doc on a run: run.text = fix_gender(run.text, gender),
\* once and once more.
Normalize ==
    /\ pc \in {"normalize", "normalized"}
    /\ text' = fix_gender(text, structured_data.gender)
    /\ pc' = IF pc = "normalize" THEN "normalized" ELSE "normalized_again"
    /\ UNCHANGED <<parsed, wrapped>>
    /\ UNCHANGED pipeline_vars
    /\ UNCHANGED concurrent_vars

NormalizerNext == Normalize

NormalizerSpec == NormalizerInit /\ [][NormalizerNext]_vars

\* ---- The /generate-ai route of app.py ----
\* A date string is a token sequence: year, dash, month, dash, day.
DASH == "-"

WordNum(w) ==
    CASE w = "2020" -> 2020
      [] w = "2021" -> 2021
      [] w = "01" -> 1
      [] w = "15" -> 15
      [] OTHER -> 0

\* datetime.strptime(tx, "%Y-%m-%d") on the years, the month and the day
\* of the modelled dates: ok is FALSE where it raises ValueError (no match,
\* or unconverted data after the day).
strptime(tx) ==
    IF /\ Len(tx) = 5
       /\ tx[1] \in {"2020", "2021"} /\ tx[2] = DASH /\ tx[3] \in {"01"}
       /\ tx[4] = DASH /\ tx[5] \in {"15"}
    THEN [ok |-> TRUE, y |-> tx[1], m |-> tx[3], d |-> tx[5]]
    ELSE [ok |-> FALSE, y |-> "", m |-> "", d |-> ""]

\* dt.strftime("%d.%m.%Y")
strftime(dt) == <<dt.d, DOT, dt.m, DOT, dt.y>>

\* The order of two dates.
DateKey(dt) == WordNum(dt.y) * 10000 + WordNum(dt.m) * 100 + WordNum(dt.d)

\* Lines 474-491 and 505-640 of calculate_all_claims on the request: the
\* dates are stripped and parsed, the end must be after the start, then
\* the claims are calculated.
CalculateOrRaise(data) ==
    LET start_str == Strip(data.start_date)
        end_str == Strip(data.end_date)
    IN IF start_str = <<>> \/ end_str = <<>> THEN Raises("ValueError")
       ELSE IF ~strptime(start_str).ok THEN Raises("ValueError")
       ELSE IF ~strptime(end_str).ok THEN Raises("ValueError")
       ELSE IF DateKey(strptime(end_str)) <= DateKey(strptime(start_str))
            THEN Raises("ValueError")
       ELSE Returns(calculate_all_claims(data.flags, data.severance))

\* generate_full_claim_via_claude: None without a client, on any exception
\* of the call and on a response that json.loads rejects; else the value
\* json.loads returns (None for the JSON null).  The fence loop is the one
\* of _strip_markdown_fences.
generate_full_claim_via_claude(client, resp) ==
    IF ~client THEN None
    ELSE IF resp.raised THEN None
    ELSE LET response_text == Strip(resp.text)
             payload == IF response_text # <<>> /\ response_text[1] = FENCE
                        THEN JoinLines(FenceLoop(SplitLines(response_text), 1, FALSE, <<>>))
                        ELSE response_text
         IN IF json_loads(payload).ok THEN json_loads(payload).v ELSE None

\* The claim text of either generator, by what the claims are about: the
\* generator, the formatted period (the template's only), the headers and
\* the total of the summary.
ClaimText(kind, period, headers, total) ==
    [kind |-> kind, period |-> period, headers |-> headers, total |-> total]

\* generate_claim_text: the dates of the request are parsed as they are
\* (lines 667-668), each calculated claim gets its section, the documents
\* claim gets one if its flag is set, and the summary gives the total.
\* The modelled request has no narrative and no work schedule, so
\* rewrite_as_legal_text is not called.
generate_claim_text(data, calc) ==
    IF ~strptime(data.start_date).ok \/ ~strptime(data.end_date).ok
    THEN Raises("ValueError")
    ELSE Returns(ClaimText("template",
                           <<strftime(strptime(data.start_date)),
                             strftime(strptime(data.end_date))>>,
                           (DOMAIN calc.claims) \cup
                               (IF "claim_documents" \in data.flags
                                THEN {claim_keys["claim_documents"]} ELSE {}),
                           calc.total))

\* bool(v), iter(v) and the items of an iteration on a decoded value.
Truthy(v) ==
    IF v.t \in {"num", "bool"} THEN v.n # 0
    ELSE IF v.t = "str" THEN v.s # <<>>
    ELSE v.c # <<>>

Iterable(v) == v.t \in {"arr", "str", "obj"}

Items(v) ==
    IF v.t = "arr" THEN v.c
    ELSE IF v.t = "str" THEN [i \in 1..Len(v.s) |-> JStr(<<v.s[i]>>)]
    ELSE [i \in 1..Len(v.c) |-> JStr(v.c[i].s)]

\* What one pass of the loop over the sections raises ("" if nothing).
SectionRaises(section) ==
    IF section.t # "obj" THEN "AttributeError"
    ELSE IF ~Iterable(DictGet(section, "paragraphs", JArr(<<>>))) THEN "TypeError"
    ELSE ""

\* The items the loop appends for a section: its header and paragraphs
\* where they are true.
SectionItems(section) ==
    SelectSeq(<<DictGet(section, "header", JStr(<<>>))>>
                  \o Items(DictGet(section, "paragraphs", JArr(<<>>))),
              Truthy)

\* generate_claim_text_from_ai: the sections of the AI response, then the
\* summary from the calculations; "\n".join raises TypeError on an item
\* that is not a str.
generate_claim_text_from_ai(ai_response, data, calc) ==
    IF ai_response.t # "obj" THEN Raises("AttributeError")
    ELSE LET sections == DictGet(ai_response, "sections", JArr(<<>>))
         IN IF ~Iterable(sections) THEN Raises("TypeError")
            ELSE LET secs == Items(sections)
                     bad == {i \in 1..Len(secs) : SectionRaises(secs[i]) # ""}
                 IN IF bad # {}
                    THEN Raises(SectionRaises(secs[CHOOSE i \in bad : \A j \in bad : i <= j]))
                    ELSE IF \E i \in 1..Len(secs) :
                               \E k \in 1..Len(SectionItems(secs[i])) :
                                   SectionItems(secs[i])[k].t # "str"
                         THEN Raises("TypeError")
                    ELSE Returns(ClaimText("ai", <<>>,
                                           {DictGet(secs[i], "header", JStr(<<>>)).s :
                                               i \in 1..Len(secs)},
                                           calc.total))

\* The responses of the route.
ErrorResponse ==
    [status |-> 400, success |-> FALSE, mode |-> "", calculations |-> None,
     claim_text |-> None, ai_response |-> None]

OkResponse(mode, calc, claim_text, ai_response) ==
    [status |-> 200, success |-> TRUE, mode |-> mode, calculations |-> calc,
     claim_text |-> claim_text, ai_response |-> ai_response]

\* The template branch and the AI branch of the route, with the except
\* clause around them.
TemplateResponse(data, calc) ==
    LET claim_text == generate_claim_text(data, calc)
    IN IF claim_text.exc # "" THEN ErrorResponse
       ELSE OkResponse("template", calc, claim_text.v, None)

AiResponse(ai_response, data, calc) ==
    LET claim_text == generate_claim_text_from_ai(ai_response, data, calc)
    IN IF claim_text.exc # "" THEN ErrorResponse
       ELSE OkResponse("ai", calc, claim_text.v, ai_response)

\* generate_ai_route on a request, a client (or none) and the response of
\* the client's call.
RouteResponse(data, client, resp) ==
    IF Strip(data.raw_text) = <<>> THEN ErrorResponse
    ELSE LET calc == CalculateOrRaise(data)
             ai_response == generate_full_claim_via_claude(client, resp)
         IN IF calc.exc # "" THEN ErrorResponse
            ELSE IF ai_response = None THEN TemplateResponse(data, calc.v)
            ELSE AiResponse(ai_response, data, calc.v)

\* Whether the route gets as far as generate_full_claim_via_claude.
AiReached(data) ==
    Strip(data.raw_text) # <<>> /\ CalculateOrRaise(data).exc = ""

\* The requests of the route: claim flags, a severance amount, the two
\* dates (absent, well-formed, with whitespace around them, or not a date)
\* and the raw facts (absent, blank or given).
RouteFlags == {"claim_severance", "claim_emotional", "claim_prior_notice",
               "claim_documents"}
Date2020 == <<"2020", DASH, "01", DASH, "15">>
Date2021 == <<"2021", DASH, "01", DASH, "15">>
RouteDates == {<<>>, Date2020, Date2021, Date2020 \o <<NL>>, <<NL>> \o Date2021,
               <<"soon">>}
RawTexts == {<<>>, <<NL>>, <<"facts">>}

RouteRequests ==
    { [flags |-> f, gender |-> g, severance |-> 1000, start_date |-> sd,
       end_date |-> ed, raw_text |-> rt] :
        f \in SUBSET RouteFlags, g \in {"male"}, sd \in RouteDates,
        ed \in RouteDates, rt \in RawTexts }

\* What the client's call may return.
RouteTexts ==
    {<<>>, ProseTxt, <<"null">>, TruncatedTxt, <<LK, RK>>, <<"7">>, <<LB, RB>>,
     DraftTxt(SEV, "25000", "25000"),
     <<FENCE, "json", NL>> \o DraftTxt(EMO, "1000", "26000") \o <<NL, FENCE>>,
     <<LB>> \o Key("sections") \o <<"null", RB>>,
     <<LB>> \o Key("sections") \o <<LK, "7", RK, RB>>}

RouteInit ==
    /\ pc = "route"
    /\ api_key \in BOOLEAN
    /\ structured_data \in RouteRequests
    /\ calculations = calculate_all_claims({}, 1000)
    /\ calls = <<>>
    /\ outcome = Running
    /\ text = <<>>
    /\ parsed = NotParsed
    /\ wrapped = None
    /\ active = 1
    /\ other = NoInvocation
    /\ elapsed = 0
    /\ stage1 = EmptyAnalysis
    /\ stage2 = None
    /\ events = <<>>
    /\ checked = <<>>

\* POST /generate-ai: api_key is whether ANTHROPIC_API_KEY is set, calls
\* keeps the response of the client's call, outcome the route's response.
generate_ai_route ==
    /\ pc = "route"
    /\ \E resp \in Responses(RouteTexts) :
          /\ outcome' = RouteResponse(structured_data, api_key, resp)
          /\ calls' = IF AiReached(structured_data) /\ api_key
                      THEN <<Call("claude", resp, 0)>> ELSE <<>>
    /\ calculations' = IF AiReached(structured_data)
                       THEN CalculateOrRaise(structured_data).v
                       ELSE calculations
    /\ pc' = "responded"
    /\ UNCHANGED <<api_key, structured_data, elapsed, stage1, stage2, events, checked>>
    /\ UNCHANGED decoder_vars
    /\ UNCHANGED concurrent_vars

RouteNext == generate_ai_route

RouteSpec == RouteInit /\ [][RouteNext]_vars

\* ---- Properties ----
CallsOf(stage) == {i \in 1..Len(calls) : calls[i].stage = stage}
Called(stage) == CallsOf(stage) # {}
TheCall(stage) == calls[CHOOSE i \in CallsOf(stage) : TRUE]

\* The call's response text as the runner decodes it.
Decoded(call) == SafeParse(Strip(call.resp.text))

\* The response arrived and some strategy parsed it.
Decodable(call) == ~call.resp.raised /\ Decoded(call).by # 0

\* The response arrived and no strategy parsed it.
Undecodable(call) == ~call.resp.raised /\ Decoded(call).by = 0

RECURSIVE ElapsedAfter(_)
ElapsedAfter(i) == IF i = 0 THEN 0 ELSE calls[i].latency + ElapsedAfter(i - 1)

Returned == pc = "done"
ReturnedDraft == pc = "done" /\ outcome.kind = "draft"

SectionCount(draft) == IF draft.sections.t = "arr" THEN Len(draft.sections.c) ELSE 0

\* C1: generate_claim_multistage returns a draft, returns null or raises a
\* Timeout-kind error, whatever the stages' outcomes; it raises no other
\* kind of exception.
C1_OnlyTimeoutIsRaised ==
    Returned => \/ outcome.kind \in {"draft", "null"}
                \/ outcome.kind = "raise" /\ outcome.exc = "TimeoutError"

\* C2: every returned draft carries the authoritative total as its
\* summary_total, whatever total the payload declared.
C2_SummaryTotalIsAuthoritative ==
    ReturnedDraft => outcome.draft.summary_total = calculations.total

\* A draft was returned whose payload declared another total.
C2_Witness ==
    /\ ReturnedDraft
    /\ stage2.t = "obj"
    /\ HasKey(stage2, "summary_total")
    /\ DictGet(stage2, "summary_total", None) # JNum(calculations.total)

\* The calculations entries of a draft that name the component.
EntriesFor(draft, name) ==
    IF draft.calculations.t # "arr" THEN {}
    ELSE {e \in {draft.calculations.c[i] : i \in 1..Len(draft.calculations.c)} :
            e.t = "obj" /\ DictGet(e, "component", None) = JStr(<<name>>)}

\* C3: for every claim of the authoritative map, the amount the returned
\* draft carries for it in its calculations equals the map's amount.
C3_AmountsAreAuthoritative ==
    ReturnedDraft =>
        \A name \in DOMAIN calculations.claims :
            \A e \in EntriesFor(outcome.draft, name) :
                DictGet(e, "amount", None) = JNum(calculations.claims[name])

\* C4: Drafter and Fallback responses both undecodable, the Fallback's call
\* having returned: a draft with at least one section is returned.
C4_DegradeDontDrop ==
    (/\ Returned
     /\ Called("drafter") /\ Undecodable(TheCall("drafter"))
     /\ Called("fallback") /\ Undecodable(TheCall("fallback")))
    => outcome.kind = "draft" /\ SectionCount(outcome.draft) >= 1

\* C5: when some strategy decodes the Drafter's response, the returned
\* draft has more than zero sections.
C5_NoSilentLoss ==
    (ReturnedDraft /\ Called("drafter") /\ Decodable(TheCall("drafter")))
    => SectionCount(outcome.draft) > 0

\* The headers of a draft's sections.
Headers(draft) ==
    IF draft.sections.t # "arr" THEN {}
    ELSE {DictGet(draft.sections.c[i], "header", None).s :
            i \in {j \in 1..Len(draft.sections.c) : draft.sections.c[j].t = "obj"}}

ClaimNames == {claim_keys[k] : k \in DOMAIN claim_keys}

\* C6: the returned draft has no section headed by a claim that is not in
\* the request's selected claim set.
C6_ClosedClaimSet ==
    ReturnedDraft =>
        \A n \in ClaimNames \ selected_claims(structured_data) :
            <<n>> \notin Headers(outcome.draft)

\* C7: with every remote call's latency at most MaxLatency, the elapsed
\* time at return is at most HARD_TIMEOUT + MaxLatency.
C7_BudgetConformance ==
    Returned => elapsed <= HARD_TIMEOUT + MaxLatency

\* C8: at the boundary after each stage's call, an elapsed time above the
\* hard deadline ends the run in a Timeout-kind error with no further
\* remote call.
C8_TimeoutAtEveryBoundary ==
    \A i \in 1..Len(calls) :
        ElapsedAfter(i) > HARD_TIMEOUT =>
            /\ Len(calls) = i
            /\ pc = "done"
            /\ outcome.kind = "raise" /\ outcome.exc = "TimeoutError"

\* The Analyst failed: its call raised, its response was undecodable, or
\* the decoded value is no object.
AnalystFailed ==
    /\ Called("analyst")
    /\ \/ TheCall("analyst").resp.raised
       \/ _safe_parse_json(Strip(TheCall("analyst").resp.text)).t # "obj"

\* The Drafter's call returned a payload object with a list of sections
\* and a list of appendices.
DrafterSucceeded ==
    /\ Called("drafter")
    /\ ~TheCall("drafter").resp.raised
    /\ \E v \in {_safe_parse_json(Strip(TheCall("drafter").resp.text))} :
         /\ v.t = "obj"
         /\ DictGet(v, "sections", JArr(<<>>)).t = "arr"
         /\ DictGet(v, "appendices", JArr(<<>>)).t = "arr"

\* C9: after any failure of the Analyst the analysis is the empty analysis,
\* the Drafter is still invoked (unless the run timed out), and a
\* successful Drafter yields a draft.
C9_AnalystFailureIsNonFatal ==
    AnalystFailed =>
        /\ stage1 = EmptyAnalysis
        /\ (Returned /\ outcome.exc # "TimeoutError") => Called("drafter")
        /\ (Returned /\ DrafterSucceeded) => outcome.kind = "draft"

\* The Drafter's primary attempt failed: its call raised or its response
\* gave no payload.
DrafterFailed ==
    /\ Called("drafter")
    /\ \/ TheCall("drafter").resp.raised
       \/ _safe_parse_json(Strip(TheCall("drafter").resp.text)) = None

\* C10: the Fallback is invoked at most once, and it is invoked exactly
\* when the Drafter's primary attempt failed.
C10_FallbackOnceIffDrafterFailed ==
    /\ Cardinality(CallsOf("fallback")) <= 1
    /\ Called("fallback") => DrafterFailed
    /\ (Returned /\ DrafterFailed) => Called("fallback")

\* The Fallback was invoked after the Drafter's response failed to decode.
C10_Witness ==
    /\ Returned
    /\ Called("fallback")
    /\ ~TheCall("drafter").resp.raised
    /\ TheCall("drafter").resp.text # <<>>

FullRunStages ==
    LET r == CHOOSE q \in Requests : q.sd.flags = {"claim_severance"}
    IN MergedDraft(json_loads(AnalysisTxt).v,
                   json_loads(DraftTxt(SEV, "25000", "25000")).v,
                   r.sd, r.calc, 0).draft.stages_completed

\* C12: a returned draft's stages_completed reflects the Analyst's
\* omission: after a failed Analyst it is smaller than the value of a run
\* in which the Analyst and the Drafter both succeeded.
C12_StagesCompletedReflectsOmission ==
    (ReturnedDraft /\ AnalystFailed) =>
        outcome.draft.stages_completed < FullRunStages

\* The draft's verification notes hold an annotation.
HasNote(draft) == Len(draft.verification_notes) > 0

\* C13: for some minimum threshold of the Verifier, every returned draft
\* whose remaining budget is below it carries a skip annotation in its
\* verification_notes and has stages_completed 2, and every run whose
\* remaining budget is at or above it ran the Verifier.
C13_VerifierRunOrSkipNoted ==
    ReturnedDraft =>
        \E threshold \in 0..HARD_TIMEOUT :
            IF HARD_TIMEOUT - elapsed < threshold
            THEN HasNote(outcome.draft) /\ outcome.draft.stages_completed = 2
            ELSE Called("verifier")

\* The lines a section holds: its header, then its paragraphs.
SectionLines(sec) ==
    LET ps == DictGet(sec, "paragraphs", JArr(<<>>))
    IN <<DictGet(sec, "header", None).s>> \o [i \in 1..Len(ps.c) |-> ps.c[i].s]

\* The lines a sequence of sections holds, in order.
RECURSIVE PayloadLines(_)
PayloadLines(secs) ==
    IF secs = <<>> THEN <<>>
    ELSE SectionLines(Head(secs)) \o PayloadLines(Tail(secs))

\* a's elements occur in b in a's order.
RECURSIVE IsSubseq(_, _)
IsSubseq(a, b) ==
    IF a = <<>> THEN TRUE
    ELSE IF b = <<>> THEN FALSE
    ELSE IF Head(a) = Head(b) THEN IsSubseq(Tail(a), Tail(b))
    ELSE IsSubseq(a, Tail(b))

\* The response is prose: it arrived, no strategy decodes it and it holds
\* words and no braces.
IsProse(call) ==
    /\ Undecodable(call)
    /\ ~Contains(call.resp.text, LB)
    /\ call.resp.text \notin {<<>>, <<"null">>}

\* C14: Drafter and Fallback both answering with undecodable prose, the
\* returned draft is non-null, has exactly one section, that section holds
\* the Fallback's raw text, and the draft carries a note of the degraded
\* generation.
C14_OneWrappedSectionAndNote ==
    (/\ Returned
     /\ Called("drafter") /\ IsProse(TheCall("drafter"))
     /\ Called("fallback") /\ IsProse(TheCall("fallback")))
    => /\ outcome.kind = "draft"
       /\ SectionCount(outcome.draft) = 1
       /\ IsSubseq(Paragraphs(Strip(TheCall("fallback").resp.text)),
                   SectionLines(outcome.draft.sections.c[1]))
       /\ HasNote(outcome.draft)

\* C15: wrapping undecodable raw text drops no content: every non-empty
\* line of the raw text is a section header or a paragraph of the wrapped
\* payload, in the original order.
C15_WrapDropsNoLine ==
    pc = "wrapped" =>
        IsSubseq(Paragraphs(text), PayloadLines(DictGet(wrapped, "sections", None).c))

\* C16: the Drafter's response having arrived undecoded and the Fallback's
\* call having failed, the Drafter's raw text is not discarded: a draft is
\* returned that is built from it.
C16_DrafterTextRetained ==
    (/\ Returned
     /\ Called("drafter") /\ Undecodable(TheCall("drafter"))
     /\ Paragraphs(Strip(TheCall("drafter").resp.text)) # <<>>
     /\ Called("fallback") /\ TheCall("fallback").resp.raised)
    => /\ outcome.kind = "draft"
       /\ \E l \in {Paragraphs(Strip(TheCall("drafter").resp.text))[i] :
                       i \in 1..Len(Paragraphs(Strip(TheCall("drafter").resp.text)))} :
             IsSubseq(<<l>>, PayloadLines(outcome.draft.sections.c))

\* What each strategy makes of the text, in the order direct parse,
\* fence-stripped parse, brace-matched substring, first-to-last-brace
\* substring.
StrategyResults(tx) == <<Strategy1(tx), Strategy2(tx), Strategy3(tx), Strategy4(tx)>>

\* The first strategy in that order that parses the text (0: none, or the
\* text is empty).
FirstParsing(tx) ==
    LET ok == {k \in 1..4 : StrategyResults(tx)[k].ok}
    IN IF tx = <<>> \/ ok = {} THEN 0
       ELSE CHOOSE k \in ok : \A j \in ok : k <= j

C18_PayloadIsObject ==
    /\ stage1.t = "obj"
    /\ stage2 = None \/ stage2.t = "obj"

\* C19: the Drafter's response being a well-formed payload object inside a
\* fenced block, with or without prose before the opening fence and after
\* the closing fence, the decoder recovers exactly that payload by
\* strategy 2 or 3, and the run returns a draft that carries all of the
\* payload's sections.
C19_FencedPayloadRecovered ==
    \A f \in FencedPayloads :
        (Called("drafter") /\ ~TheCall("drafter").resp.raised
            /\ TheCall("drafter").resp.text = f.text)
        => /\ Decoded(TheCall("drafter")).by \in {2, 3}
           /\ Decoded(TheCall("drafter")).v = json_loads(f.payload).v
           /\ Returned =>
                 /\ outcome.kind = "draft"
                 /\ outcome.draft.sections =
                        DictGet(json_loads(f.payload).v, "sections", None)

\* C20: a Stage Runner does not raise for a malformed response: for an
\* undecodable response the Analyst and the Drafter return an outcome, and
\* the Orchestrator holds the Drafter's complete raw text afterwards.
C20_RunnerReturnsFailureWithText ==
    /\ (Called("analyst") /\ Undecodable(TheCall("analyst")))
          => _run_stage1(TheCall("analyst").resp).exc = ""
    /\ (Called("drafter") /\ Undecodable(TheCall("drafter")))
          => /\ _run_stage2_streaming(TheCall("drafter").resp).exc = ""
             /\ stage2_raw_text = JStr(Strip(TheCall("drafter").resp.text))

\* The number of events of the stage among those emitted.
EventCount(stage) == Cardinality({i \in 1..Len(events) : events[i] = stage})

\* C21: during the Drafter stage the progress notifications are fewer than
\* the chunks received, once more than one chunk arrives.
C21_ProgressRateBounded ==
    (Called("drafter") /\ Len(TheCall("drafter").chunks) > 1)
        => EventCount("drafting_progress") < Len(TheCall("drafter").chunks)

\* C22: the merge appends an appendix the Analyst detected only if the
\* Drafter's or Fallback's appendices do not hold it already: the returned
\* draft's appendices never hold the same appendix twice.
C22_AppendicesNotRepeated ==
    (ReturnedDraft /\ outcome.draft.appendices.t = "arr") =>
        \A i, j \in 1..Len(outcome.draft.appendices.c) :
            i # j => outcome.draft.appendices.c[i] # outcome.draft.appendices.c[j]

\* C23: the Grammatical Normalizer is idempotent and leaves text without
\* gender-ambiguous tokens unchanged: applying it to text it has already
\* normalized changes nothing, and applying it to text that holds no
\* ambiguous token changes nothing.
C23_NormalizerIdempotent ==
    [][/\ pc = "normalized" => text' = text
       /\ (pc = "normalize" /\ \A i \in 1..Len(text) : text[i] \notin AmbiguousTokens)
             => text' = text]_vars

\* A run that held the ambiguous form of his/her rights was normalized
\* for a female plaintiff, twice.
C23_Witness ==
    /\ pc = "normalized_again"
    /\ structured_data.gender = "female"
    /\ Contains(text, "zchuyoteha")

\* The stages of the remote calls made, in order.
StagesCalled == [i \in 1..Len(calls) |-> calls[i].stage]

\* C24: every invocation ends after at most three remote calls, made one
\* after another in the order Analyst, Drafter, Fallback, the Fallback
\* only after the Drafter failed and no stage twice.
C24_BoundedSequentialCalls ==
    /\ [](/\ Len(calls) <= 3
          /\ StagesCalled = SubSeq(<<"analyst", "drafter", "fallback">>, 1, Len(calls))
          /\ Called("fallback") => DrafterFailed)
    /\ <>(pc = "done")

\* An invocation ended after three remote calls.
C24_Witness == pc = "done" /\ Len(calls) = 3

\* The elapsed time of an invocation's own first n calls.
RECURSIVE OwnElapsed(_, _)
OwnElapsed(cs, n) == IF n = 0 THEN 0 ELSE cs[n].latency + OwnElapsed(cs, n - 1)

\* What an invocation returns or raises when it runs alone on the request
\* and the remote responses cs.
SoloOutcome(key, sd, calc, cs) ==
    IF ~key THEN ReturnNone
    ELSE IF Len(cs) = 0 THEN Running
    ELSE IF TimedOut(OwnElapsed(cs, 1)) THEN Raise("TimeoutError")
    ELSE IF Len(cs) = 1 THEN Running
    ELSE IF ~NeedsFallback(Stage2Result(cs[2].resp))
         THEN MergedDraft(Stage1Analysis(cs[1].resp), Stage2Result(cs[2].resp),
                          sd, calc, OwnElapsed(cs, 2))
    ELSE IF Len(cs) = 2 THEN Running
    ELSE IF _run_simple_fallback(cs[3].resp, sd, calc).exc # "" THEN ReturnNone
    ELSE MergedDraft(Stage1Analysis(cs[1].resp),
                     _run_simple_fallback(cs[3].resp, sd, calc).v,
                     sd, calc, OwnElapsed(cs, 3))

\* C25: two concurrent invocations share no mutable state: however their
\* steps interleave, what each returns or raises is what it returns or
\* raises alone on its own request and its own remote responses.
C25_InvocationsIndependent ==
    /\ pc = "done" =>
          outcome = SoloOutcome(api_key, structured_data, calculations, calls)
    /\ other.pc = "done" =>
          other.outcome = SoloOutcome(other.api_key, other.structured_data,
                                      other.calculations, other.calls)

\* One invocation returned a draft after its Fallback while the other is
\* suspended before its own Fallback call, having spent the whole budget.
C25_Witness ==
    /\ pc = "done" /\ outcome.kind = "draft" /\ Len(calls) = 3
    /\ other.pc = "fallback" /\ other.elapsed > HARD_TIMEOUT

\* ---- The /generate-ai route ----
\* What generate_full_claim_via_claude returned in a request that got as
\* far as calling it.
AiResult ==
    IF calls = <<>> THEN None
    ELSE generate_full_claim_via_claude(TRUE, calls[1].resp)

\* C26: when AI generation yields no result (None), the route responds
\* with success, mode "template", the template's claim text and the
\* calculations, and not with an error.
C26_NullFallsBackToTemplate ==
    (pc = "responded" /\ AiReached(structured_data) /\ AiResult = None) =>
        /\ outcome.status = 200
        /\ outcome.success
        /\ outcome.mode = "template"
        /\ outcome.calculations = calculations
        /\ outcome.claim_text.kind = "template"

\* ---- Strategy 3 ----
\* C27: for a text that is a well-formed object followed by trailing text,
\* strategy 3 extracts the object, also when braces occur inside the
\* object's strings.
C27_Strategy3ExtractsObject ==
    pc = "decoded" =>
        \A f \in TrailingPayloads :
            text = f.text =>
                /\ Strategy3(text).ok
                /\ Strategy3(text).v = json_loads(f.payload).v

\* ---- The timeout check after the Analyst ----
\* C28: if the elapsed time measured after the Analyst is above
\* HARD_TIMEOUT the call raises TimeoutError before any Drafter or Fallback
\* call and before any "drafting" or "done" event; if it is equal to or
\* below HARD_TIMEOUT the Drafter is started.
C28_TimeoutAfterAnalyst ==
    Called("analyst") =>
        /\ checked # <<>>
        /\ checked[1] = calls[1].latency
        /\ checked[1] > HARD_TIMEOUT =>
              /\ outcome = Raise("TimeoutError")
              /\ ~Called("drafter") /\ ~Called("fallback")
              /\ \A i \in 1..Len(events) : events[i] \notin {"drafting", "done"}
        /\ checked[1] <= HARD_TIMEOUT =>
              /\ outcome # Raise("TimeoutError")
              /\ Len(events) >= 2 /\ events[2] = "drafting"
              /\ pc = "stage2" \/ Called("drafter")

\* The Analyst took exactly HARD_TIMEOUT and the Drafter was called.
C28_Witness ==
    /\ Called("analyst")
    /\ checked[1] = HARD_TIMEOUT
    /\ Called("drafter")

\* ---- The order of the progress events ----
\* The events follow the order analyzing, drafting, drafting_progress
\* (any number), one more drafting, done.
EventsInOrder ==
    /\ \A i \in 1..Len(events) :
          /\ events[i] = "analyzing" <=> i = 1
          /\ i = 2 => events[i] = "drafting"
          /\ events[i] \in {"analyzing", "drafting", "drafting_progress", "done"}
          /\ events[i] = "done" => i = Len(events)
    /\ Cardinality({i \in 3..Len(events) : events[i] = "drafting"}) <= 1
    /\ \A i \in 3..Len(events) :
          events[i] = "drafting" =>
              \A j \in (i + 1)..Len(events) : events[j] # "drafting_progress"

\* C29: the events are emitted in order; "done" is emitted once, as the
\* last event, on the runs that return a draft, and a run that returns
\* None or raises emits no "done".
C29_DoneOnlyOnReturnedDraft ==
    /\ EventsInOrder
    /\ EventCount("done") <= 1
    /\ pc = "done" => (EventCount("done") = 1 <=> outcome.kind = "draft")

\* ---- The amounts and the selected claims ----
\* C30: calculate_all_claims has an entry for every claim flag that
\* generate_claim_multistage treats as selected, and none for a flag that
\* is not set.
C30_AmountsCoverSelectedClaims ==
    (pc = "responded" /\ outcome.success) =>
        /\ DOMAIN outcome.calculations.claims = selected_claims(structured_data)
        /\ \A k \in DOMAIN claim_keys :
              k \in structured_data.flags <=>
                  claim_keys[k] \in DOMAIN outcome.calculations.claims
====
